---------------------------- MODULE Spec2Model ----------------------------
(***************************************************************************)
(* ToneSwiper: the key-chord recorder of ToneSwiperWindow, the encoder       *)
(* key_sequence_to_transcription and the parts of AudioPlayerWrapper they    *)
(* read, modelled from src/src/toneswiper/toneswiper.py.                     *)
(*                                                                           *)
(* Python strings are sequences of one-character strings, so that            *)
(* concatenation, table lookup and str.replace are computed and not assumed. *)
(* Times are integers (milliseconds).                                        *)
(***************************************************************************)
EXTENDS Integers, Sequences, FiniteSets, TLC

(***************************************************************************)
(* Bounds of the model.                                                      *)
(***************************************************************************)
\* longest key sequence handed to the encoder in SpecEnc
MaxEncLen == 4
\* longest chord (current_key_sequence) the window accumulates in Spec
MaxSeqLen == 2
\* most keys held down at once (keys_currently_pressed)
MaxHeld == 2
\* most annotations held at once, on the display and in transcriptions together
MaxEntries == 1
\* duration of every recording, and so the largest player position
MaxPos == 1
\* most simultaneous connections of durationChanged to the window's slot
MaxConnections == 1

\* latest reading of the elapsed timer, in SpecEst
MaxElapsed == 2
\* duration of every recording in SpecEst and SpecFiles
MaxEstPos == 2
\* most annotations held at once in SpecFiles
MaxFilesEntries == 2
\* most simultaneous connections of durationChanged in SpecFiles
MaxFilesConnections == 2
\* largest delay asked of configure, and longest time between two ticks, in SpecDelay
MaxDelay == 2
MaxProgressSteps == 2

\* A value that may be None: None is the empty tuple, a value x is Some(x)
None == <<>>
Some(x) == <<x>>
Val(o) == o[1]

\* no exception has escaped a handler
NoException == "none"

(***************************************************************************)
(* Keys.  todi_keys maps the five roles to Qt keys (lines 26-32).            *)
(***************************************************************************)
todi_keys ==
    [high |-> "Key_Up", low |-> "Key_Down", left |-> "Key_Left",
     right |-> "Key_Right", downstep |-> "Key_Control"]

todi_key_values == {todi_keys[r] : r \in DOMAIN todi_keys}

Range(s) == {s[i] : i \in DOMAIN s}

BoundedSeq(S, n) == UNION {[1..k -> S] : k \in 0..n}

(***************************************************************************)
(* key_str_to_todi (lines 75-89): the table from core strings to templates. *)
(***************************************************************************)
key_str_to_todi ==
    (<<"L", "H">>      :> <<"L", "*", "H">>) @@
    (<<"H", "L">>      :> <<"H", "*", "L">>) @@
    (<<"H", "L", ">">> :> <<"H", "*", "L", " ", "L", "%">>) @@
    (<<"L", "H", ">">> :> <<"L", "*", "H", " ", "H", "%">>) @@
    (<<"L", "H", "L">> :> <<"L", "*", "H", "L">>) @@
    (<<"H", "L", "H">> :> <<"H", "*", "L", "H">>) @@
    (<<"H", ">">>      :> <<"H", "%">>) @@
    (<<"L", ">">>      :> <<"L", "%">>) @@
    (<<"<", "H">>      :> <<"%", "H">>) @@
    (<<"<", "L">>      :> <<"%", "L">>) @@
    (<<">">>           :> <<"%">>) @@
    (<<"H">>           :> <<"H", "*">>) @@
    (<<"L">>           :> <<"L", "*">>)

(***************************************************************************)
(* str.replace(old, new): every non-overlapping occurrence of old, scanned  *)
(* from the left, is replaced by new (line 111).                             *)
(***************************************************************************)
StartsWith(s, old) ==
    /\ Len(s) >= Len(old)
    /\ SubSeq(s, 1, Len(old)) = old

RECURSIVE str_replace(_, _, _)
str_replace(s, old, new) ==
    IF s = <<>> THEN <<>>
    ELSE IF StartsWith(s, old)
         THEN new \o str_replace(SubSeq(s, Len(old) + 1, Len(s)), old, new)
         ELSE <<Head(s)>> \o str_replace(Tail(s), old, new)

(***************************************************************************)
(* key_sequence_to_transcription (lines 92-113).  The result is a record:   *)
(* raised = TRUE is the ValueError of line 108 (value holds the rejected     *)
(* core string), raised = FALSE a returned transcription.                   *)
(***************************************************************************)
\* lines 93-98: the loop over the keys, one letter per high or low key
RECURSIVE proto_letters(_)
proto_letters(key_sequence) ==
    IF key_sequence = <<>> THEN <<>>
    ELSE LET key == Head(key_sequence)
             letter == IF key = todi_keys.high THEN <<"H">>
                       ELSE IF key = todi_keys.low THEN <<"L">>
                       ELSE <<>>
         IN  letter \o proto_letters(Tail(key_sequence))

\* proto_transcription with the left boundary appended where line 103 prepends it
proto_transcription_left_appended(key_sequence) ==
    LET letters == proto_letters(key_sequence)
        with_right == IF todi_keys.right \in Range(key_sequence)
                      THEN letters \o <<">">> ELSE letters
    IN  IF todi_keys.left \in Range(key_sequence)
        THEN with_right \o <<"<">> ELSE with_right

\* lines 93-103: the core string that is looked up
proto_transcription(key_sequence) ==
    LET letters == proto_letters(key_sequence)
        with_right == IF todi_keys.right \in Range(key_sequence)
                      THEN letters \o <<">">> ELSE letters
    IN  IF todi_keys.left \in Range(key_sequence)
        THEN <<"<">> \o with_right ELSE with_right

\* apply_downstep marking every H of the template, starred or not
apply_downstep_every_H(key_sequence, transcription) ==
    IF todi_keys.downstep \in Range(key_sequence)
    THEN str_replace(transcription, <<"H">>, <<"!", "H">>)
    ELSE transcription

\* lines 110-111: the downstep rewrite of a resolved template
apply_downstep(key_sequence, transcription) ==
    IF todi_keys.downstep \in Range(key_sequence)
    THEN str_replace(transcription, <<"H", "*">>, <<"!", "H", "*">>)
    ELSE transcription

key_sequence_to_transcription(key_sequence) ==
    LET proto == proto_transcription(key_sequence)
    IN  IF proto \notin DOMAIN key_str_to_todi
        THEN [raised |-> TRUE, value |-> proto]
        ELSE [raised |-> FALSE,
              value |-> apply_downstep(key_sequence, key_str_to_todi[proto])]


(***************************************************************************)
(* State.                                                                    *)
(***************************************************************************)
VARIABLES
    keys_currently_pressed,     \* ToneSwiperWindow.keys_currently_pressed (line 403)
    current_key_sequence,       \* ToneSwiperWindow.current_key_sequence (line 404)
    current_key_sequence_time,  \* ToneSwiperWindow.current_key_sequence_time (line 405)
    bubbles,                    \* the text bubbles of self.textboxes, in creation order
    transcriptions,             \* ToneSwiperWindow.transcriptions (line 370)
    current_file_index,         \* ToneSwiperWindow.current_file_index
    connections,                \* slots connected to player.durationChanged (line 424)
    player,                     \* the AudioPlayerWrapper: QMediaPlayer state and lines 193-194
    play_pending,               \* a QTimer.singleShot(150, self.play) has not fired yet (line 204)
    elapsed,                    \* AudioPlayerWrapper.elapsedtimer.elapsed()
    escaped,                    \* the exception that escaped a handler, or NoException
    keyboard,                   \* the keys the user works with in this run
    last_drawn_position,        \* SpectogramWidget.last_drawn_position (line 250)
    sampled,                    \* history: on_position_changed has been called since __init__
    configured_delay_ms,        \* DelayState.configured_delay_ms
    effective_delay_ms,         \* DelayState.effective_delay_ms
    enc_in,                     \* SpecEnc: the key sequence given to the encoder
    enc_out                     \* SpecEnc: what the encoder returned, or None

vars == <<keys_currently_pressed, current_key_sequence, current_key_sequence_time,
          bubbles, transcriptions, current_file_index, connections, player,
          play_pending, elapsed, escaped, keyboard, last_drawn_position, sampled,
          configured_delay_ms, effective_delay_ms, enc_in, enc_out>>

chordVars == <<keys_currently_pressed, current_key_sequence, current_key_sequence_time>>
fileVars == <<bubbles, transcriptions, current_file_index, connections>>
encVars == <<enc_in, enc_out>>
inputVars == <<keyboard, enc_in, enc_out>>
delayVars == <<configured_delay_ms, effective_delay_ms>>
\* what the key handlers and the player's signals leave alone
restVars == <<inputVars, last_drawn_position, delayVars>>

\* len(self.wavfiles): the recordings given on the command line
NumFiles == 2
Files == 0..(NumFiles - 1)

\* AudioPlayerWrapper.SEEK_STEP_MS (line 181)
SEEK_STEP_MS == 500

\* the limits of lines 448 and 450, in tenths
MinRate == 5
MaxRate == 20

(***************************************************************************)
(* Python floats.  The playback rate is a double: lines 448 and 450 compute *)
(* it in IEEE 754 binary64.  With t the double that the literal 0.1         *)
(* denotes, t = 3602879701896397 * 2^-55, the double x is held as           *)
(* [tenths |-> k, ulps |-> d], x = k * t + d * 2^-55 with d small.          *)
(***************************************************************************)
Double(k, d) == [tenths |-> k, ulps |-> d]

\* the literals 0.5 and 2.0, and the rate 1.0 of a new QMediaPlayer:
\* 2^54 = 5t - 1, 2^55 = 10t - 2 and 2^56 = 20t - 4 units of 2^-55
float_min_rate == Double(MinRate, -1)
float_one == Double(2 * MinRate, -2)
float_max_rate == Double(MaxRate, -4)

\* x <= y
float_le(x, y) == x.tenths < y.tenths \/ (x.tenths = y.tenths /\ x.ulps <= y.ulps)

\* the distance between neighbouring doubles at x, in units of 2^-55: 2^-53
\* in [0.5, 1), 2^-52 in [1, 2), and so on
float_spacing(x) ==
    IF ~float_le(float_min_rate, x) THEN 2
    ELSE IF ~float_le(float_one, x) THEN 4
    ELSE IF ~float_le(float_max_rate, x) THEN 8
    ELSE 16

\* the double nearest to the real x, ties to the even one; the numerator of
\* t is 13 modulo 32
float_round(x) ==
    LET g == float_spacing(x)
        r == (13 * x.tenths + x.ulps + 1024) % (2 * g)
        low == r % g
    IN  IF 2 * low < g \/ (2 * low = g /\ r < g)
        THEN Double(x.tenths, x.ulps - low)
        ELSE Double(x.tenths, x.ulps + g - low)

\* x - 0.1 and x + 0.1
float_sub_tenth(x) == float_round(Double(x.tenths - 1, x.ulps))
float_add_tenth(x) == float_round(Double(x.tenths + 1, x.ulps))

\* max(x, y) and min(x, y) of Python
float_max(x, y) == IF float_le(y, x) THEN x ELSE y
float_min(x, y) == IF float_le(x, y) THEN x ELSE y

(***************************************************************************)
(* The text bubble scene.  textbubbles.py is not among the sources: a       *)
(* bubble is the pair (relative_x, text) it was created with, relative_x    *)
(* kept as the fraction <<numerator, denominator>> of the division that     *)
(* produced it.                                                              *)
(***************************************************************************)
Reverse(s) == [i \in 1..Len(s) |-> s[Len(s) + 1 - i]]

\* text_bubble_scene.new_item_relx(relx, text): one more bubble
new_item_relx(bs, relx, text) == Append(bs, [relative_x |-> relx, text |-> text])

\* textboxes.textBubbles(): the bubbles, most recently created first
textBubbles(bs) == Reverse(bs)

\* b.relative_x * self.player.duration() (lines 412 and 514)
absolute_time(b, d) == (b.relative_x[1] * d) \div b.relative_x[2]

(***************************************************************************)
(* AudioPlayerWrapper (lines 180-230).  QMediaPlayer itself is Qt: stop,    *)
(* play, pause, setSource and setPosition are modelled by their documented  *)
(* effect on position(), duration() and playbackState().                    *)
(***************************************************************************)
\* on_position_changed (lines 228-230)
on_position_changed(p, ms) ==
    [p EXCEPT !.last_position = Some(ms), !.time_of_last_position = Some(elapsed)]

\* QMediaPlayer.setPosition and the positionChanged signal it emits (line 197)
setPosition(p, ms) ==
    IF ms = p.position THEN p
    ELSE on_position_changed([p EXCEPT !.position = ms], ms)

\* QMediaPlayer.stop (line 422): stopped, back at the start
player_stop(p) == setPosition([p EXCEPT !.playbackState = "Stopped"], 0)

\* QMediaPlayer.play (lines 204, 211): a player stopped at the end restarts
player_play(p) ==
    LET q == [p EXCEPT !.playbackState = "Playing"]
    IN  IF p.playbackState = "Stopped" /\ p.duration > 0 /\ p.position = p.duration
        THEN setPosition(q, 0) ELSE q

\* load_file (lines 200-204): setSource unloads the old media; the timer is play_pending
load_file(p) == [setPosition(p, 0) EXCEPT !.playbackState = "Stopped", !.duration = 0]

\* toggle_play_pause that keeps the observation time when it resumes
toggle_play_pause_keeps_time(p) ==
    IF p.playbackState = "Playing"
    THEN [p EXCEPT !.playbackState = "Paused"]
    ELSE player_play(p)

\* toggle_play_pause (lines 206-211)
toggle_play_pause(p) ==
    IF p.playbackState = "Playing"
    THEN [p EXCEPT !.playbackState = "Paused"]
    ELSE player_play([p EXCEPT !.time_of_last_position = None])

Min(a, b) == IF a < b THEN a ELSE b
Max(a, b) == IF a > b THEN a ELSE b

\* seek_relative without the invalidation of line 216
seek_relative_keeps_sample(p, delta_ms) ==
    LET newpos == Min(Max(0, p.position + delta_ms), p.duration)
    IN  setPosition(p, newpos)

\* seek_relative (lines 213-216)
seek_relative(p, delta_ms) ==
    LET newpos == Min(Max(0, p.position + delta_ms), p.duration)
    IN  [setPosition(p, newpos) EXCEPT !.last_position = None]

\* line 448 without max: the rate falls by 0.1 at every press
slow_down_without_limit(p) ==
    [p EXCEPT !.playbackRate = float_sub_tenth(p.playbackRate)]

\* lines 448 and 450; setPlaybackRate keeps the double it is given
slow_down(p) ==
    [p EXCEPT !.playbackRate = float_max(float_sub_tenth(p.playbackRate), float_min_rate)]

speed_up(p) ==
    [p EXCEPT !.playbackRate = float_min(float_add_tenth(p.playbackRate), float_max_rate)]

\* determine_current_position (lines 218-226): the player as the call leaves it
\* (line 220 takes a sample when there is none) and the value returned
determine_current_position(p) ==
    LET p1 == IF p.last_position = None THEN on_position_changed(p, p.position) ELSE p
        delta == IF p1.playbackState = "Playing" /\ p1.time_of_last_position # None
                 THEN elapsed - Val(p1.time_of_last_position)
                 ELSE 0
    IN  [player |-> p1, estimated_position |-> Val(p1.last_position) + delta]

\* the width of the jitter window of line 304
JITTER_MS == 100

\* update_progress without the test of line 304: every estimate is drawn
update_progress_draws_every_estimate(p, last_drawn) ==
    IF p.duration > 0
    THEN LET q == determine_current_position(p)
         IN  [player |-> q.player, last_drawn_position |-> Some(q.estimated_position)]
    ELSE [player |-> p, last_drawn_position |-> last_drawn]

\* SpectogramWidget.update_progress (lines 300-308), run by update_timer every
\* 10 ms: the player and last_drawn_position as the call leaves them
update_progress(p, last_drawn) ==
    IF p.duration > 0
    THEN LET q == determine_current_position(p)
             pos == q.estimated_position
         IN  IF /\ last_drawn # None
                /\ Val(last_drawn) - JITTER_MS < pos
                /\ pos < Val(last_drawn)
             THEN [player |-> q.player, last_drawn_position |-> last_drawn]
             ELSE [player |-> q.player, last_drawn_position |-> Some(pos)]
    ELSE [player |-> p, last_drawn_position |-> last_drawn]


(***************************************************************************)
(* DelayController.  It is not among the sources: configure, tick and        *)
(* current are modelled from their contract, on DelayState.                  *)
(***************************************************************************)
\* configure(delay_ms): the new configured_delay_ms, clamped to [0, max(duration_ms, 0)]
configure(delay_ms, duration_ms) == Min(Max(delay_ms, 0), Max(duration_ms, 0))

\* tick(is_stopped, elapsed_since_last_tick): the new effective_delay_ms
tick(is_stopped, elapsed_since_last_tick, effective, configured) ==
    IF is_stopped THEN Max(effective - elapsed_since_last_tick, 0) ELSE configured

\* current(): the effective delay
current(effective) == effective

(***************************************************************************)
(* ToneSwiperWindow (lines 361-524).  The operations on recordings work on  *)
(* a record app of the fields they read and write, so that a handler can    *)
(* run them one after the other as the code does.                           *)
(***************************************************************************)
App ==
    [transcriptions |-> transcriptions, bubbles |-> bubbles,
     current_file_index |-> current_file_index, connections |-> connections,
     player |-> player, play_pending |-> play_pending]

\* the list comprehension of lines 412 and 514
bubbles_as_transcription(bs, d) ==
    LET tb == textBubbles(bs)
    IN  [i \in 1..Len(tb) |-> <<absolute_time(tb[i], d), tb[i].text>>]

\* load_index (lines 407-424); first_file is False once __init__ has run
load_index(app, idx) ==
    IF idx = app.current_file_index THEN app
    ELSE [app EXCEPT
            !.transcriptions[app.current_file_index] =
                bubbles_as_transcription(app.bubbles, app.player.duration),
            !.bubbles = <<>>,
            !.current_file_index = idx % NumFiles,
            !.player = load_file(player_stop(app.player)),
            !.play_pending = TRUE,
            !.connections = app.connections + 1]

\* next and prev (lines 497-501)
next(app) == load_index(app, (app.current_file_index + 1) % NumFiles)
prev(app) == load_index(app, (app.current_file_index - 1) % NumFiles)

\* clear_current (lines 503-505)
clear_current(app) == [app EXCEPT !.bubbles = <<>>]

\* undo that pops the last element of textBubbles(), pop() for pop(0)
undo_pops_last(app) ==
    LET tb == textBubbles(app.bubbles)
    IN  IF tb = <<>> THEN app
        ELSE [app EXCEPT !.bubbles = Reverse(SubSeq(tb, 1, Len(tb) - 1))]

\* undo (lines 507-511): removes textBubbles()[0]
undo(app) ==
    IF textBubbles(app.bubbles) = <<>> THEN app
    ELSE [app EXCEPT !.bubbles = Reverse(Tail(textBubbles(app.bubbles)))]

\* the for loop of lines 429-430
RECURSIVE place_transcription(_, _, _)
place_transcription(bs, entries, d) ==
    IF entries = <<>> THEN bs
    ELSE place_transcription(
            new_item_relx(bs, <<Head(entries)[1], d>>, Head(entries)[2]),
            Tail(entries), d)

\* duration_known_so_load_transcription (lines 427-431)
duration_known_so_load_transcription(app, duration) ==
    [app EXCEPT
        !.bubbles = IF duration > 0
                    THEN place_transcription(app.bubbles,
                            app.transcriptions[app.current_file_index],
                            app.player.duration)
                    ELSE app.bubbles,
        !.connections = 0]

\* Python truth value of current_key_sequence_time (line 487)
Truthy(t) == t # None /\ Val(t) # 0

SetApp(app) ==
    /\ transcriptions' = app.transcriptions
    /\ bubbles' = app.bubbles
    /\ current_file_index' = app.current_file_index
    /\ connections' = app.connections
    /\ player' = app.player
    /\ play_pending' = app.play_pending

\* lines 443-450: the commands chosen by event.text()
text_command(app, t) ==
    IF t \in {">", "."} THEN [app EXCEPT !.player = seek_relative(app.player, SEEK_STEP_MS)]
    ELSE IF t \in {"<", ","} THEN [app EXCEPT !.player = seek_relative(app.player, -SEEK_STEP_MS)]
    ELSE IF t = "-" THEN [app EXCEPT !.player = slow_down(app.player)]
    ELSE IF t \in {"+", "="} THEN [app EXCEPT !.player = speed_up(app.player)]
    ELSE app

\* lines 452-461: the commands that load another recording
navigation_command(app, key, modifiers) ==
    IF (key = "Key_Right" /\ "Alt" \in modifiers) \/ key \in {"Key_PageDown", "Key_BracketRight"}
    THEN next(app)
    ELSE IF (key = "Key_Left" /\ "Alt" \in modifiers) \/ key \in {"Key_PageUp", "Key_BracketLeft"}
    THEN prev(app)
    ELSE IF key = "Key_Home" THEN load_index(app, 0)
    ELSE IF key = "Key_End" THEN load_index(app, NumFiles - 1)
    ELSE app

\* the live chord, as a record of lines 404 and 405
Chord == [sequence |-> current_key_sequence, time |-> current_key_sequence_time]

EmptyChord == [sequence |-> <<>>, time |-> None]

SetChord(chord) ==
    /\ current_key_sequence' = chord.sequence
    /\ current_key_sequence_time' = chord.time

\* chord_after_keydown whose last branch leaves the chord as it is
chord_after_keydown_keeps(key, modifiers, chord, position) ==
    IF key \in todi_key_values
    THEN [sequence |-> Append(chord.sequence, key),
          time |-> IF key # todi_keys.downstep THEN Some(position) ELSE chord.time]
    ELSE chord

\* chord_after_keydown that appends a role only when the chord does not hold it yet
chord_after_keydown_idempotent(key, modifiers, chord, position) ==
    IF key = "Key_Z" /\ "Control" \in modifiers THEN chord
    ELSE IF key \in todi_key_values
    THEN [sequence |-> IF key \in Range(chord.sequence) THEN chord.sequence
                       ELSE Append(chord.sequence, key),
          time |-> IF key # todi_keys.downstep THEN Some(position) ELSE chord.time]
    ELSE EmptyChord

\* chord_after_keydown that takes the onset time at every role key, downstep too
chord_after_keydown_downstep_times(key, modifiers, chord, position) ==
    IF key = "Key_Z" /\ "Control" \in modifiers THEN chord
    ELSE IF key \in todi_key_values
    THEN [sequence |-> Append(chord.sequence, key), time |-> Some(position)]
    ELSE EmptyChord

\* lines 463-474 as far as they touch the chord; position is self.player.position()
chord_after_keydown(key, modifiers, chord, position) ==
    IF key = "Key_Z" /\ "Control" \in modifiers THEN chord
    ELSE IF key \in todi_key_values
    THEN [sequence |-> Append(chord.sequence, key),
          time |-> IF key # todi_keys.downstep THEN Some(position) ELSE chord.time]
    ELSE EmptyChord

\* lines 463-467: undo and clear_current
edit_command(app, key, modifiers) ==
    IF key = "Key_Z" /\ "Control" \in modifiers
    THEN IF "Shift" \in modifiers THEN clear_current(app) ELSE undo(app)
    ELSE app

\* keyPressEvent (lines 434-476); isAutoRepeat is carried by the event and never read
keyPressEvent(key, text, modifiers, isAutoRepeat) ==
    IF key = "Key_Space"
    THEN /\ player' = toggle_play_pause(player)
         /\ UNCHANGED <<chordVars, fileVars, play_pending, escaped>>
    ELSE LET app1 == navigation_command(text_command(App, text), key, modifiers)
         IN  /\ keys_currently_pressed' = keys_currently_pressed \cup {key}
             /\ SetApp(edit_command(app1, key, modifiers))
             /\ SetChord(chord_after_keydown(key, modifiers, Chord, app1.player.position))
             /\ UNCHANGED escaped

\* chord_finalized without the reset of lines 494-495
chord_finalized_keeps(chord, bs, duration) ==
    LET result == key_sequence_to_transcription(chord.sequence)
    IN  IF chord.sequence # <<>> /\ Truthy(chord.time) /\ ~result.raised /\ duration # 0
        THEN [chord |-> chord,
              bubbles |-> new_item_relx(bs, <<Val(chord.time), duration>>, result.value),
              escaped |-> NoException]
        ELSE [chord |-> chord, bubbles |-> bs, escaped |-> NoException]

\* chord_finalized without the except clause of lines 490-491
chord_finalized_uncaught(chord, bs, duration) ==
    LET result == key_sequence_to_transcription(chord.sequence)
    IN  IF chord.sequence # <<>> /\ Truthy(chord.time)
        THEN IF result.raised
             THEN [chord |-> chord, bubbles |-> bs, escaped |-> "ValueError"]
             ELSE IF duration = 0
             THEN [chord |-> chord, bubbles |-> bs, escaped |-> "ZeroDivisionError"]
             ELSE [chord |-> EmptyChord,
                   bubbles |-> new_item_relx(bs, <<Val(chord.time), duration>>, result.value),
                   escaped |-> NoException]
        ELSE [chord |-> EmptyChord, bubbles |-> bs, escaped |-> NoException]

\* lines 487-495, run when the last held key went up: the chord is encoded and
\* placed, and reset.  The division of line 493 raises ZeroDivisionError when
\* duration() is 0, and then lines 494-495 are not reached.
chord_finalized(chord, bs, duration) ==
    LET result == key_sequence_to_transcription(chord.sequence)
    IN  IF chord.sequence # <<>> /\ Truthy(chord.time)
        THEN IF result.raised
             THEN [chord |-> EmptyChord, bubbles |-> bs, escaped |-> NoException]
             ELSE IF duration = 0
             THEN [chord |-> chord, bubbles |-> bs, escaped |-> "ZeroDivisionError"]
             ELSE [chord |-> EmptyChord,
                   bubbles |-> new_item_relx(bs, <<Val(chord.time), duration>>, result.value),
                   escaped |-> NoException]
        ELSE [chord |-> EmptyChord, bubbles |-> bs, escaped |-> NoException]

\* keyReleaseEvent without the early return of lines 484-485
keyReleaseEvent_finalizes_every_keyup(key, isAutoRepeat) ==
    LET held == keys_currently_pressed \ {key}
        done == chord_finalized(Chord, bubbles, player.duration)
    IN  /\ keys_currently_pressed' = held
        /\ UNCHANGED <<transcriptions, current_file_index, connections, player, play_pending>>
        /\ SetChord(done.chord)
        /\ bubbles' = done.bubbles
        /\ escaped' = done.escaped

\* keyReleaseEvent (lines 478-495); isAutoRepeat is carried by the event and never read
keyReleaseEvent(key, isAutoRepeat) ==
    LET held == keys_currently_pressed \ {key}
        done == chord_finalized(Chord, bubbles, player.duration)
    IN  /\ keys_currently_pressed' = held
        /\ UNCHANGED <<transcriptions, current_file_index, connections, player, play_pending>>
        /\ IF held # {}
           THEN UNCHANGED <<current_key_sequence, current_key_sequence_time, bubbles, escaped>>
           ELSE /\ SetChord(done.chord)
                /\ bubbles' = done.bubbles
                /\ escaped' = done.escaped

(***************************************************************************)
(* The events of the window: keys come from the user, the rest from Qt.     *)
(***************************************************************************)
Keys == todi_key_values \cup {"Key_Space", "Key_Z", "Key_BracketRight",
                               "Key_Period", "Key_Comma", "Key_Minus", "Key_Equal"}

\* The user works with one of two keyboards in a run: every role key with
\* play/pause and undo, or the keys that load another recording (Alt with an
\* arrow, the bracket) with HIGH, RIGHT_BOUNDARY and DOWNSTEP.
AnnotationKeyboard ==
    [keys |-> todi_key_values \cup {"Key_Space", "Key_Z"}, alt |-> FALSE]
NavigationKeyboard ==
    [keys |-> {todi_keys.high, todi_keys.right, todi_keys.downstep,
               "Key_Space", "Key_Z", "Key_BracketRight"}, alt |-> TRUE]
Keyboards == {AnnotationKeyboard, NavigationKeyboard}

\* The keyboards of SpecEst: play/pause with the keys that seek and load, or
\* with the key that lowers the playback rate and HIGH (SpecRate has both
\* keys that change the rate).
SeekKeyboard ==
    [keys |-> {"Key_Space", "Key_Period", "Key_Comma", "Key_BracketRight"}, alt |-> FALSE]
RateKeyboard ==
    [keys |-> {"Key_Space", "Key_Minus", todi_keys.high}, alt |-> FALSE]
PlaybackKeyboards == {SeekKeyboard, RateKeyboard}

\* The keyboard of SpecFiles: HIGH to annotate, Z to undo and clear, the
\* bracket to load the next recording, play/pause.
TimelineKeyboard ==
    [keys |-> {todi_keys.high, "Key_Z", "Key_BracketRight", "Key_Space"}, alt |-> FALSE]

\* The keyboard of SpecDelay: play/pause.
DelayKeyboard == [keys |-> {"Key_Space"}, alt |-> FALSE]

\* The keyboard of SpecRate: slow down and speed up.
SpeedKeyboard == [keys |-> {"Key_Minus", "Key_Equal"}, alt |-> FALSE]

\* The keyboard of SpecProgress: play/pause and seek backward.
ProgressKeyboard == [keys |-> {"Key_Space", "Key_Comma"}, alt |-> FALSE]

\* the distance between two positions that Qt reports while it plays: 1, and
\* in SpecProgress the width of the jitter window of line 304
PositionStep == IF keyboard = ProgressKeyboard THEN JITTER_MS ELSE 1

\* duration() of the recordings of this run, once Qt has read them
RecordingDuration ==
    IF keyboard = ProgressKeyboard THEN MaxProgressSteps * PositionStep
    ELSE IF keyboard \in PlaybackKeyboards \cup {TimelineKeyboard, DelayKeyboard}
    THEN MaxEstPos ELSE MaxPos

\* the bounds on annotations and connections in this run
EntryBound == IF keyboard = TimelineKeyboard THEN MaxFilesEntries ELSE MaxEntries
ConnectionBound ==
    IF keyboard = TimelineKeyboard THEN MaxFilesConnections ELSE MaxConnections

\* event.text() of a key of Keys
KeyText(key) ==
    IF key = "Key_Space" THEN " "
    ELSE IF key = "Key_Z" THEN "z"
    ELSE IF key = "Key_BracketRight" THEN "]"
    ELSE IF key = "Key_Period" THEN "."
    ELSE IF key = "Key_Comma" THEN ","
    ELSE IF key = "Key_Minus" THEN "-"
    ELSE IF key = "Key_Equal" THEN "="
    ELSE ""

\* event.modifiers(): the handler reads Alt with the horizontal arrows (lines
\* 452, 455) and Control and Shift with Z (lines 463, 464), and nowhere else
Modifiers(key) ==
    IF key \in {"Key_Right", "Key_Left"} THEN {{}, {"Alt"}}
    ELSE IF key = "Key_Z" THEN {{}, {"Control"}, {"Control", "Shift"}}
    ELSE {{}}

\* the modifiers the keyboard of this run can give with key
KeyboardModifiers(key) ==
    {m \in Modifiers(key) : "Alt" \in m => keyboard.alt}

(***************************************************************************)
(* Initial state: the window as __init__ leaves it (lines 363-405), with no *)
(* stored annotations; load_index(0) has stopped the player, set its source *)
(* and connected the duration slot.                                         *)
(***************************************************************************)
InitWindow ==
    /\ keys_currently_pressed = {}
    /\ current_key_sequence = <<>>
    /\ current_key_sequence_time = None
    /\ bubbles = <<>>
    /\ transcriptions = [f \in Files |-> <<>>]
    /\ current_file_index = 0
    /\ connections = 1
    /\ player = [position |-> 0, duration |-> 0, playbackState |-> "Stopped",
                 playbackRate |-> float_one, last_position |-> Some(0),
                 time_of_last_position |-> Some(0)]
    /\ play_pending = TRUE
    /\ elapsed = 0
    /\ escaped = NoException
    /\ last_drawn_position = Some(0)
    /\ sampled = FALSE
    /\ configured_delay_ms = 0
    /\ effective_delay_ms = 0

Init ==
    /\ InitWindow
    /\ keyboard \in Keyboards
    /\ enc_in = <<>>
    /\ enc_out = None

\* QMediaPlayer emits positionChanged, and so on_position_changed runs (line
\* 197), in the steps that change position()
Sampling == sampled' = (sampled \/ player'.position # player.position)

RECURSIVE SumLen(_, _)
SumLen(f, S) ==
    IF S = {} THEN 0
    ELSE LET x == CHOOSE y \in S : TRUE IN Len(f[x]) + SumLen(f, S \ {x})

\* the annotations held by the window
Entries(bs, ts) == Len(bs) + SumLen(ts, DOMAIN ts)

\* a key goes down
KeyPress ==
    \E key \in keyboard.keys : \E modifiers \in KeyboardModifiers(key) :
        /\ escaped = NoException
        /\ keyPressEvent(key, KeyText(key), modifiers, FALSE)
        /\ Cardinality(keys_currently_pressed') <= MaxHeld
        /\ Len(current_key_sequence') <= MaxSeqLen
        /\ connections' <= ConnectionBound
        /\ UNCHANGED <<elapsed, restVars>>
        /\ Sampling

\* a key that is held down auto-repeats: Qt delivers a keydown flagged isAutoRepeat
KeyRepeatPress ==
    \E key \in keys_currently_pressed \cup {"Key_Space"} :
      \E modifiers \in KeyboardModifiers(key) :
        /\ escaped = NoException
        /\ keyPressEvent(key, KeyText(key), modifiers, TRUE)
        /\ Len(current_key_sequence') <= MaxSeqLen
        /\ connections' <= ConnectionBound
        /\ UNCHANGED <<elapsed, restVars>>
        /\ Sampling

\* a key goes up; Space is never recorded in keys_currently_pressed (line 437)
KeyRelease ==
    \E key \in keys_currently_pressed \cup {"Key_Space"} :
        /\ escaped = NoException
        /\ keyReleaseEvent(key, FALSE)
        /\ Entries(bubbles', transcriptions') <= EntryBound
        /\ UNCHANGED <<elapsed, restVars>>
        /\ Sampling

\* auto-repeat on X11: Qt delivers a keyup flagged isAutoRepeat before each repeated keydown
KeyRepeatRelease ==
    \E key \in keys_currently_pressed :
        /\ escaped = NoException
        /\ keyReleaseEvent(key, TRUE)
        /\ Entries(bubbles', transcriptions') <= EntryBound
        /\ UNCHANGED <<elapsed, restVars>>
        /\ Sampling

\* the timer of line 204 fires and calls play
PlayTimer ==
    /\ escaped = NoException
    /\ play_pending
    /\ play_pending' = FALSE
    /\ player' = player_play(player)
    /\ UNCHANGED <<chordVars, fileVars, elapsed, escaped, restVars>>
    /\ Sampling

\* Qt has read the media: duration() becomes known and durationChanged is emitted
DurationChanged ==
    /\ escaped = NoException
    /\ player.duration = 0
    /\ LET app1 == [App EXCEPT !.player.duration = RecordingDuration]
       IN  SetApp(IF connections > 0
                  THEN duration_known_so_load_transcription(app1, RecordingDuration)
                  ELSE app1)
    /\ Entries(bubbles', transcriptions') <= EntryBound
    /\ UNCHANGED <<chordVars, elapsed, escaped, restVars>>
    /\ Sampling

\* Qt emits durationChanged(0) while the media is still being read: the slot
\* connected at line 424 runs with duration 0 (lines 427-431)
DurationZero ==
    /\ escaped = NoException
    /\ player.duration = 0
    /\ connections > 0
    /\ SetApp(duration_known_so_load_transcription(App, 0))
    /\ UNCHANGED <<chordVars, elapsed, escaped, restVars>>
    /\ Sampling

\* playback advances: positionChanged is emitted; at the end the player stops
PositionChanged ==
    /\ escaped = NoException
    /\ player.playbackState = "Playing"
    /\ player.duration > 0
    /\ player.position < player.duration
    /\ LET p == setPosition(player, Min(player.position + PositionStep, player.duration))
       IN  player' = IF p.position = p.duration
                     THEN [p EXCEPT !.playbackState = "Stopped"] ELSE p
    /\ UNCHANGED <<chordVars, fileVars, play_pending, elapsed, escaped, restVars>>
    /\ Sampling

\* the elapsed timer of line 187 runs on
Tick ==
    /\ escaped = NoException
    /\ elapsed < MaxElapsed
    /\ elapsed' = elapsed + 1
    /\ UNCHANGED <<chordVars, fileVars, player, play_pending, escaped, restVars, sampled>>

\* update_timer times out (lines 254-257) and runs update_progress
UpdateProgress ==
    /\ escaped = NoException
    /\ LET r == update_progress(player, last_drawn_position)
       IN  /\ player' = r.player
           /\ last_drawn_position' = r.last_drawn_position
    /\ sampled' = (sampled \/ (player.duration > 0 /\ player.last_position = None))
    /\ UNCHANGED <<chordVars, fileVars, play_pending, elapsed, escaped, inputVars, delayVars>>

Next ==
    \/ KeyPress \/ KeyRepeatPress \/ KeyRelease \/ KeyRepeatRelease
    \/ PlayTimer \/ DurationChanged \/ PositionChanged

Spec == Init /\ [][Next]_vars

(***************************************************************************)
(* The position estimate: the window with the elapsed timer running and the *)
(* progress line redrawn, under the keys that play, seek, load and change   *)
(* the rate.                                                                 *)
(***************************************************************************)
InitEst ==
    /\ InitWindow
    /\ keyboard \in PlaybackKeyboards
    /\ enc_in = <<>>
    /\ enc_out = None

NextEst ==
    \/ KeyPress \/ KeyRelease
    \/ PlayTimer \/ DurationChanged \/ PositionChanged
    \/ Tick \/ UpdateProgress

SpecEst == InitEst /\ [][NextEst]_vars

(***************************************************************************)
(* The playback rate: the window under the keys that slow down and speed up. *)
(***************************************************************************)
InitRate ==
    /\ InitWindow
    /\ keyboard = SpeedKeyboard
    /\ enc_in = <<>>
    /\ enc_out = None

NextRate ==
    \/ KeyPress \/ KeyRelease
    \/ PlayTimer \/ DurationChanged \/ PositionChanged

SpecRate == InitRate /\ [][NextRate]_vars

(***************************************************************************)
(* The progress line: the window of SpecEst in a recording whose positions  *)
(* are reported a jitter window apart, under the keys that play and seek    *)
(* backward.                                                                 *)
(***************************************************************************)
InitProgress ==
    /\ InitWindow
    /\ keyboard = ProgressKeyboard
    /\ enc_in = <<>>
    /\ enc_out = None

NextProgress ==
    \/ KeyPress \/ KeyRelease
    \/ PlayTimer \/ DurationChanged \/ PositionChanged
    \/ Tick \/ UpdateProgress

SpecProgress == InitProgress /\ [][NextProgress]_vars

(***************************************************************************)
(* The annotations of the recordings: the window under the keys that        *)
(* annotate, undo and load the next recording.                               *)
(***************************************************************************)
InitFiles ==
    /\ InitWindow
    /\ keyboard = TimelineKeyboard
    /\ enc_in = <<>>
    /\ enc_out = None

NextFiles ==
    \/ KeyPress \/ KeyRelease
    \/ PlayTimer \/ DurationChanged \/ PositionChanged

SpecFiles == InitFiles /\ [][NextFiles]_vars

(***************************************************************************)
(* The loading of recordings: the window of SpecFiles beside a player that  *)
(* may report a duration of 0 before it reports the recording's duration.   *)
(***************************************************************************)
InitLoad == InitFiles

NextLoad ==
    \/ KeyPress \/ KeyRelease
    \/ PlayTimer \/ DurationChanged \/ DurationZero \/ PositionChanged

SpecLoad == InitLoad /\ [][NextLoad]_vars

(***************************************************************************)
(* The annotation delay: the DelayController beside a player that is        *)
(* played, paused and stopped.                                               *)
(***************************************************************************)
\* the user asks for another delay
Configure ==
    \E delay_ms \in (-1)..(MaxDelay + 1) :
        /\ escaped = NoException
        /\ configured_delay_ms' = configure(delay_ms, player.duration)
        /\ UNCHANGED <<chordVars, fileVars, player, play_pending, elapsed, escaped,
                       inputVars, last_drawn_position, sampled, effective_delay_ms>>

\* the controller is ticked, told whether the player is stopped
DelayTick ==
    \E elapsed_since_last_tick \in 1..MaxDelay :
        /\ escaped = NoException
        /\ effective_delay_ms' = tick(player.playbackState # "Playing",
                                      elapsed_since_last_tick,
                                      effective_delay_ms, configured_delay_ms)
        /\ UNCHANGED <<chordVars, fileVars, player, play_pending, elapsed, escaped,
                       inputVars, last_drawn_position, sampled, configured_delay_ms>>

InitDelay ==
    /\ InitWindow
    /\ keyboard = DelayKeyboard
    /\ enc_in = <<>>
    /\ enc_out = None

NextDelay ==
    \/ KeyPress \/ PlayTimer \/ DurationChanged \/ PositionChanged
    \/ Configure \/ DelayTick

SpecDelay == InitDelay /\ [][NextDelay]_vars

(***************************************************************************)
(* The encoder alone: every key sequence up to MaxEncLen is encoded.        *)
(***************************************************************************)
InitEnc ==
    /\ InitWindow
    /\ keyboard = AnnotationKeyboard
    /\ enc_in \in BoundedSeq(todi_key_values, MaxEncLen)
    /\ enc_out = None

Encode ==
    /\ enc_out = None
    /\ enc_out' = Some(key_sequence_to_transcription(enc_in))
    /\ UNCHANGED <<chordVars, fileVars, player, play_pending, elapsed, escaped, keyboard,
                   enc_in, last_drawn_position, sampled, delayVars>>

NextEnc == Encode

SpecEnc == InitEnc /\ [][NextEnc]_vars


(***************************************************************************)
(* The encoder's contract, stated apart from the code: the core string of   *)
(* a key sequence and the canonical table of the tone inventory.            *)
(***************************************************************************)
ToneLetters(key_sequence) ==
    LET tones == SelectSeq(key_sequence,
                           LAMBDA k : k \in {todi_keys.high, todi_keys.low})
    IN  [i \in 1..Len(tones) |-> IF tones[i] = todi_keys.high THEN "H" ELSE "L"]

CoreString(key_sequence) ==
    (IF todi_keys.left \in Range(key_sequence) THEN <<"<">> ELSE <<>>)
    \o ToneLetters(key_sequence)
    \o (IF todi_keys.right \in Range(key_sequence) THEN <<">">> ELSE <<>>)

CanonicalTable ==
    { << <<"L", "H">>,      <<"L", "*", "H">> >>,
      << <<"H", "L">>,      <<"H", "*", "L">> >>,
      << <<"H", "L", ">">>, <<"H", "*", "L", " ", "L", "%">> >>,
      << <<"L", "H", ">">>, <<"L", "*", "H", " ", "H", "%">> >>,
      << <<"L", "H", "L">>, <<"L", "*", "H", "L">> >>,
      << <<"H", "L", "H">>, <<"H", "*", "L", "H">> >>,
      << <<"H", ">">>,      <<"H", "%">> >>,
      << <<"L", ">">>,      <<"L", "%">> >>,
      << <<"<", "H">>,      <<"%", "H">> >>,
      << <<"<", "L">>,      <<"%", "L">> >>,
      << <<">">>,           <<"%">> >>,
      << <<"H">>,           <<"H", "*">> >>,
      << <<"L">>,           <<"L", "*">> >> }

TableRows(core) == {row \in CanonicalTable : row[1] = core}
Template(core) == (CHOOSE row \in TableRows(core) : TRUE)[2]
IsValidCore(core) == TableRows(core) # {}

WithoutChar(s, c) == SelectSeq(s, LAMBDA x : x # c)
WithoutKey(key_sequence, key) == SelectSeq(key_sequence, LAMBDA k : k # key)

\* r is t with an exclamation mark put before every H* and nowhere else
IsDownstepped(t, r) ==
    /\ WithoutChar(r, "!") = t
    /\ \A i \in 1..Len(r) :
          /\ (r[i] = "H" /\ i < Len(r) /\ r[i + 1] = "*") => (i > 1 /\ r[i - 1] = "!")
          /\ (r[i] = "!") => (i + 2 <= Len(r) /\ r[i + 1] = "H" /\ r[i + 2] = "*")

\* C1: for every sequence of tracked keys the encoder looks up the core string
\* (one H per HIGH key and one L per LOW key in press order, > appended for
\* RIGHT_BOUNDARY, < prepended for LEFT_BOUNDARY) in the 13-row canonical
\* table: a core string of the table gives that row's template (exactly so
\* when no DOWNSTEP key is in the sequence, and up to the downstep marks of C7
\* otherwise), and every other core string, such as <>, <HL, <H> or the empty
\* one, is rejected as an invalid gesture naming that core string.
C1_EncoderTable ==
    enc_out # None =>
        LET out == Val(enc_out)
            core == CoreString(enc_in)
        IN  IF IsValidCore(core)
            THEN /\ ~out.raised
                 /\ WithoutChar(out.value, "!") = Template(core)
                 /\ (todi_keys.downstep \notin Range(enc_in)) => out.value = Template(core)
            ELSE /\ out.raised
                 /\ out.value = core

\* C1 witness: LOW, HIGH, RIGHT_BOUNDARY has been encoded as L*H H%
C1_Witness ==
    /\ enc_in = <<todi_keys.low, todi_keys.high, todi_keys.right>>
    /\ enc_out = Some([raised |-> FALSE, value |-> <<"L", "*", "H", " ", "H", "%">>])

\* C7: with DOWNSTEP among the keys the result is the table template of the
\* core string with every H* rewritten to !H* and nothing else changed
\* (HIGH with DOWNSTEP gives !H*; L*, L*H and %H come back unchanged), and the
\* core string that is looked up, hence the validity of the gesture, is the
\* one of the sequence without its DOWNSTEP keys.
C7_Downstep ==
    (enc_out # None /\ todi_keys.downstep \in Range(enc_in)) =>
        LET out == Val(enc_out)
            core == CoreString(WithoutKey(enc_in, todi_keys.downstep))
        IN  /\ out.raised = ~IsValidCore(core)
            /\ out.raised => out.value = core
            /\ ~out.raised => IsDownstepped(Template(core), out.value)
            /\ core = <<"H">> => out.value = <<"!", "H", "*">>
            /\ core \in {<<"L">>, <<"L", "H">>, <<"<", "H">>} => out.value = Template(core)

\* C7 witness: HIGH, LOW and DOWNSTEP have been encoded as !H*L
C7_Witness ==
    /\ enc_in = <<todi_keys.high, todi_keys.low, todi_keys.downstep>>
    /\ enc_out = Some([raised |-> FALSE, value |-> <<"!", "H", "*", "L">>])


(***************************************************************************)
(* The chord recorder.  A step is a keydown or a keyup when it satisfies    *)
(* the handler's action for that event.                                     *)
(***************************************************************************)
PressOf(key, modifiers, isAutoRepeat) ==
    keyPressEvent(key, KeyText(key), modifiers, isAutoRepeat)

UntrackedKeys == Keys \ todi_key_values

ChordIsEmpty == current_key_sequence = <<>> /\ current_key_sequence_time = None
ChordIsEmptyAfter == current_key_sequence' = <<>> /\ current_key_sequence_time' = None

\* a bubble at time t of a recording of duration d
BubbleAt(t, d, text) == [relative_x |-> <<t, d>>, text |-> text]

\* C2 as stated: a keydown of any key that is not a role key clears the chord.
C2_Original ==
    [][\A key \in UntrackedKeys : \A modifiers \in Modifiers(key) :
         \A isAutoRepeat \in BOOLEAN :
            PressOf(key, modifiers, isAutoRepeat) => ChordIsEmptyAfter]_vars

\* C2 amended: a keydown of a key that is not a role key, other than Space
\* and other than Z with the Control modifier, clears the chord's roles and
\* onset time at once; and a keyup while the chord has no roles appends no
\* entry (so HIGH, then such a key, then both released leaves the timeline
\* as it was).
C2_Abandon ==
    [][/\ \A key \in UntrackedKeys \ {"Key_Space"} : \A modifiers \in Modifiers(key) :
            \A isAutoRepeat \in BOOLEAN :
               (~(key = "Key_Z" /\ "Control" \in modifiers)
                   /\ PressOf(key, modifiers, isAutoRepeat)) => ChordIsEmptyAfter
       /\ \A key \in Keys : \A isAutoRepeat \in BOOLEAN :
            (keyReleaseEvent(key, isAutoRepeat) /\ current_key_sequence = <<>>)
               => (bubbles' = bubbles /\ escaped' = NoException)]_vars

\* C2 witness: HIGH is still held, an untracked key went down after it, and
\* the chord is empty
C2_Witness ==
    /\ keys_currently_pressed = {todi_keys.high, "Key_Z"}
    /\ ChordIsEmpty

\* C3 as stated, for a recording whose duration is known: a keyup that
\* empties the held-key set hands a chord with at least one role and a
\* recorded onset time (whatever its value, 0 included) to the encoder, and
\* an accepted chord appends exactly one entry at the onset time; with no
\* role or no onset nothing is appended; no error is raised.
C3_Original ==
    [][\A key \in Keys : \A isAutoRepeat \in BOOLEAN :
         (/\ keyReleaseEvent(key, isAutoRepeat)
          /\ keys_currently_pressed' = {}
          /\ player.duration > 0)
         => /\ escaped' = NoException
            /\ bubbles' =
                 IF /\ current_key_sequence # <<>>
                    /\ current_key_sequence_time # None
                    /\ IsValidCore(CoreString(current_key_sequence))
                 THEN Append(bubbles,
                        BubbleAt(Val(current_key_sequence_time), player.duration,
                                 key_sequence_to_transcription(current_key_sequence).value))
                 ELSE bubbles]_vars

\* C4 as stated: a keydown of a role the chord already holds leaves the
\* accumulated roles unchanged.
C4_Original ==
    [][\A key \in todi_key_values : \A modifiers \in Modifiers(key) :
         \A isAutoRepeat \in BOOLEAN :
            (PressOf(key, modifiers, isAutoRepeat) /\ key \in Range(current_key_sequence))
               => current_key_sequence' = current_key_sequence]_vars

\* C4 amended: within a chord the roles form a sequence in which repeats
\* count: every keydown of a role key appends that role, also when the chord
\* already holds it, and the label of an entry made at finalization is the
\* template of the core string of that whole sequence, one letter per HIGH
\* and per LOW keydown.
C4_Amended ==
    [][/\ \A key \in todi_key_values : \A modifiers \in Modifiers(key) :
            \A isAutoRepeat \in BOOLEAN :
               PressOf(key, modifiers, isAutoRepeat)
                  => current_key_sequence' = Append(current_key_sequence, key)
       /\ \A key \in Keys : \A isAutoRepeat \in BOOLEAN :
            (keyReleaseEvent(key, isAutoRepeat) /\ bubbles' # bubbles)
               => /\ IsValidCore(CoreString(current_key_sequence))
                  /\ Len(bubbles') = Len(bubbles) + 1
                  /\ WithoutChar(bubbles'[Len(bubbles')].text, "!")
                        = Template(CoreString(current_key_sequence))]_vars

\* C4 witness: the chord holds the same role twice
C4_Witness ==
    \E i, j \in DOMAIN current_key_sequence :
        i < j /\ current_key_sequence[i] = current_key_sequence[j]

\* C5 as stated: a keydown or keyup flagged as auto-repeat changes neither
\* the held-key set, nor the chord's roles and onset time, nor the timeline.
C5_Original ==
    [][\A key \in keys_currently_pressed \cup {"Key_Space"} :
         \A modifiers \in Modifiers(key) :
            (PressOf(key, modifiers, TRUE) \/ keyReleaseEvent(key, TRUE))
               => UNCHANGED <<keys_currently_pressed, current_key_sequence,
                              current_key_sequence_time, bubbles>>]_vars

\* C6: a keydown of HIGH, LOW, LEFT_BOUNDARY or RIGHT_BOUNDARY sets the onset
\* time to the player's position read at that keydown; a DOWNSTEP keydown
\* appends the role and leaves the onset time as it was, unset included.
C6_Onset ==
    [][\A key \in todi_key_values : \A modifiers \in Modifiers(key) :
         \A isAutoRepeat \in BOOLEAN :
            PressOf(key, modifiers, isAutoRepeat)
               => IF key = todi_keys.downstep
                  THEN /\ current_key_sequence' = Append(current_key_sequence, key)
                       /\ current_key_sequence_time' = current_key_sequence_time
                  ELSE current_key_sequence_time' = Some(player'.position)]_vars

\* C6 witness: DOWNSTEP went down after HIGH when the position had moved on,
\* and the onset time is still that of HIGH
C6_Witness ==
    /\ current_key_sequence = <<todi_keys.high, todi_keys.downstep>>
    /\ current_key_sequence_time = Some(0)
    /\ player.position > 0

\* C8: whenever the held-key set is empty the live chord is empty: no roles
\* and no onset time.
C8_IdleChordEmpty ==
    keys_currently_pressed = {} => ChordIsEmpty

\* C8 witness: a chord has been finalized into an entry and every key is up
C8_Witness ==
    /\ keys_currently_pressed = {}
    /\ bubbles # <<>>
    /\ \A f \in Files : transcriptions[f] = <<>>

\* C9: when the keyup that empties the held-key set finds a chord whose core
\* string has no table entry, no entry is appended, no exception escapes,
\* the chord is reset to empty and nothing else changes, so that the window
\* is as if the chord had never been made.
C9_InvalidAbsorbed ==
    [][\A key \in Keys : \A isAutoRepeat \in BOOLEAN :
         (/\ keyReleaseEvent(key, isAutoRepeat)
          /\ keys_currently_pressed' = {}
          /\ current_key_sequence # <<>>
          /\ ~IsValidCore(CoreString(current_key_sequence)))
         => /\ bubbles' = bubbles
            /\ escaped' = NoException
            /\ ChordIsEmptyAfter
            /\ UNCHANGED <<transcriptions, current_file_index, connections,
                           player, play_pending, elapsed>>]_vars

\* C9 witness: one key is still held of a chord with an onset time whose
\* core string, HH, is not in the table, in a recording of known duration
C9_Witness ==
    /\ keys_currently_pressed = {todi_keys.high}
    /\ current_key_sequence = <<todi_keys.high, todi_keys.high>>
    /\ Truthy(current_key_sequence_time)
    /\ player.duration > 0

\* C10 as stated: when a recording is loaded while a chord is in progress,
\* the chord is empty right after the load.
C10_Original ==
    [][(current_file_index' # current_file_index /\ current_key_sequence # <<>>)
          => ChordIsEmptyAfter]_vars

\* no exception escapes a handler
NothingEscapes == escaped = NoException

(***************************************************************************)
(* The position estimate (SpecEst).                                          *)
(***************************************************************************)
SeekKeys == {"Key_Period", "Key_Comma"}

\* the value a position query would return in this state
Estimate == determine_current_position(player).estimated_position

\* C11 as stated: a keydown that seeks, or that loads another recording,
\* invalidates the estimator: right after it the estimator holds no reported
\* position, or else no observation time taken before that keydown, so that
\* nothing recorded before the operation enters a later estimate.
C11_Original ==
    [][\A key \in SeekKeys \cup {"Key_BracketRight"} :
         (PressOf(key, {}, FALSE) /\ UNCHANGED elapsed)
            => \/ player'.last_position = None
               \/ player'.time_of_last_position \in {None, Some(elapsed)}]_vars

\* C12 as stated: before the first position sample has arrived a position
\* query returns 0, whatever the playback state and the elapsed time.
C12_Original ==
    (~sampled /\ player.duration > 0) => Estimate = 0

\* C13 as stated: right after a seek, when no new sample has been delivered
\* yet, a position query returns 0.
C13_Original ==
    [][\A key \in SeekKeys :
         (PressOf(key, {}, FALSE) /\ UNCHANGED elapsed /\ player'.duration > 0)
            => determine_current_position(player').estimated_position = 0]_vars

\* the position a seek by delta_ms aims at (line 214)
SeekTarget(key) ==
    LET delta_ms == IF key = "Key_Period" THEN SEEK_STEP_MS ELSE -SEEK_STEP_MS
    IN  Min(Max(0, player.position + delta_ms), player.duration)

\* C13 amended: a seek leaves the estimator without a sample, and as long as
\* it has none, a position query takes a sample itself and returns the
\* player's current position with nothing added: the clamped target right
\* after the seek, and 0 only when that position is 0.
C13_Resample ==
    [][/\ \A key \in SeekKeys :
            (PressOf(key, {}, FALSE) /\ UNCHANGED elapsed)
               => /\ player'.last_position = None
                  /\ player'.position = SeekTarget(key)
       /\ player'.last_position = None
            => /\ Estimate' = player'.position
               /\ determine_current_position(player)'.player.last_position
                     = Some(player'.position)]_vars

\* C13 witness: a seek has left the estimator without a sample, away from 0,
\* while the player is playing and the timer has run on
C13_Witness ==
    /\ player.last_position = None
    /\ player.duration > 0
    /\ player.position > 0
    /\ player.playbackState = "Playing"
    /\ player.time_of_last_position # None
    /\ Val(player.time_of_last_position) < elapsed

\* C14 as stated: while the player is playing and a sample is held, the
\* estimate is the last reported position plus the time since the sample was
\* observed multiplied by the playback rate (to the nearest tenth).
C14_Original ==
    (/\ player.playbackState = "Playing"
     /\ player.duration > 0
     /\ sampled
     /\ player.last_position # None
     /\ player.time_of_last_position # None)
    => 10 * Estimate = 10 * Val(player.last_position)
                       + (elapsed - Val(player.time_of_last_position)) * player.playbackRate.tenths

\* C15: while the player is paused or stopped and a sample is held, a position
\* query returns the last reported position exactly, whatever the elapsed
\* time; and when play/pause resumes playback, the query returns the reported
\* position with nothing added, and the time from which later estimates
\* extrapolate is not earlier than the resumption, so that time spent paused
\* never enters an estimate.
C15_NoExtrapolation ==
    [][/\ (player'.playbackState # "Playing" /\ player'.last_position # None)
            => Estimate' = Val(player'.last_position)
       /\ (/\ PressOf("Key_Space", {}, FALSE)
           /\ UNCHANGED elapsed
           /\ player.playbackState # "Playing"
           /\ player'.last_position # None)
            => /\ player'.playbackState = "Playing"
               /\ Estimate' = Val(player'.last_position)
               /\ player'.time_of_last_position \in {None, Some(elapsed)}]_vars

\* C15 witness: the player is paused on a sample the player reported, and the
\* timer has run on since that sample was observed
C15_Witness ==
    /\ player.playbackState = "Paused"
    /\ sampled
    /\ player.last_position # None
    /\ Val(player.last_position) > 0
    /\ player.time_of_last_position # None
    /\ Val(player.time_of_last_position) < elapsed

(***************************************************************************)
(* The annotations of the recordings (SpecFiles).                            *)
(***************************************************************************)
\* the entries of a list of bubbles, (time, label) in creation order
EntriesOf(bs, d) == [i \in 1..Len(bs) |-> <<absolute_time(bs[i], d), bs[i].text>>]

SeqBag(s) == [x \in Range(s) |-> Cardinality({i \in DOMAIN s : s[i] = x})]

\* the timeline of recording f: what is displayed when f is the current
\* recording and its stored entries have been placed, else what is stored
Displayed == connections = 0
Timeline(f) ==
    IF f = current_file_index /\ Displayed
    THEN SeqBag(EntriesOf(bubbles, player.duration))
    ELSE SeqBag(transcriptions[f])

\* C17 as stated: storing the timeline when the user navigates away and
\* placing it again when the recording's duration is known keep the multiset
\* of (time, label) pairs of every recording, whenever the events come.
C17_Original ==
    [][(current_file_index' # current_file_index \/ player'.duration # player.duration)
          => \A f \in Files : Timeline(f)' = Timeline(f)]_vars

\* C18 as stated, the window keeping no annotation delay: in a recording of
\* known duration of which the player has reported a position, the onset
\* time an entry is created with, taken at the keydown of HIGH, is the
\* estimated position at that keydown.
C18_Original ==
    [][\A isAutoRepeat \in BOOLEAN :
         (/\ PressOf(todi_keys.high, {}, isAutoRepeat)
          /\ UNCHANGED elapsed
          /\ sampled
          /\ player.duration > 0)
            => current_key_sequence_time' = Some(Estimate)]_vars

\* C20: a keyup that leaves a key held changes neither the chord's roles, nor
\* its onset time, nor the entries, and raises nothing.
C20_PartialRelease ==
    [][\A key \in Keys : \A isAutoRepeat \in BOOLEAN :
         (keyReleaseEvent(key, isAutoRepeat) /\ keys_currently_pressed' # {})
            => UNCHANGED <<current_key_sequence, current_key_sequence_time,
                           bubbles, transcriptions, escaped>>]_vars

\* C20 witness: one of the two keys of a chord that the encoder accepts has
\* gone up and the other is still held, in a recording of known duration
C20_Witness ==
    /\ Len(current_key_sequence) = 2
    /\ Cardinality(keys_currently_pressed) = 1
    /\ keys_currently_pressed \subseteq Range(current_key_sequence)
    /\ IsValidCore(CoreString(current_key_sequence))
    /\ Truthy(current_key_sequence_time)
    /\ player.duration > 0

(***************************************************************************)
(* The annotation delay (SpecDelay).                                         *)
(***************************************************************************)
\* C19 as stated: the effective delay does not increase while playback is
\* stopped, a tick that finds playback resumed resets it to the configured
\* delay, and in every state it lies between 0 and the configured delay.
C19_Original ==
    [][/\ (player.playbackState # "Playing" /\ player'.playbackState # "Playing")
            => current(effective_delay_ms)' <= current(effective_delay_ms)
       /\ (player.playbackState = "Playing" /\ effective_delay_ms' # effective_delay_ms)
            => effective_delay_ms' = configured_delay_ms
       /\ current(effective_delay_ms)' \in 0..configured_delay_ms']_vars

(***************************************************************************)
(* The loading of recordings (SpecLoad).                                     *)
(***************************************************************************)
\* C21 as stated: the step in which a positive duration is reported for the
\* loaded recording places its stored entries on the display, each once:
\* also when a notification of duration 0 has come first, and also when
\* several recordings were loaded before any notification came.
C21_Original ==
    [][(player.duration = 0 /\ player'.duration > 0)
          => bubbles' = place_transcription(bubbles,
                            transcriptions[current_file_index], player'.duration)]_vars

(***************************************************************************)
(* The progress line (SpecProgress).                                         *)
(***************************************************************************)
\* C22: no step moves the last drawn position backwards by more than 0 and
\* less than JITTER_MS: it stays, advances, or jumps back by JITTER_MS or
\* more.  A run of update_progress while duration() is not positive changes
\* nothing.
C22_NoSmallStepBack ==
    [][/\ \/ Val(last_drawn_position') >= Val(last_drawn_position)
           \/ Val(last_drawn_position') <= Val(last_drawn_position) - JITTER_MS
       /\ (UpdateProgress /\ player.duration <= 0) => UNCHANGED vars]_vars

\* C22 witness: update_progress has sampled the position and the estimate
\* lies less than JITTER_MS behind a drawn position that is itself beyond
\* the first jitter window (so a jump back to 0 is a jump of JITTER_MS or more)
C22_Witness ==
    /\ player.duration > 0
    /\ player.last_position # None
    /\ Val(last_drawn_position) > JITTER_MS
    /\ Estimate < Val(last_drawn_position)
    /\ Estimate > Val(last_drawn_position) - JITTER_MS

(***************************************************************************)
(* The playback rate (SpecRate).                                             *)
(***************************************************************************)
\* C23: the playback rate stays within [0.5, 2.0] and within rounding (less
\* than 2^-50) of a multiple of 0.1; a press of - takes it one tenth down
\* and a press of = one tenth up, but not beyond the limits; at 0.5 a press
\* of - and at 2.0 a press of = leave it as it is, and no other step
\* changes it.
C23_RateSteps ==
    [][LET rate == player.playbackRate
           rate_after == player'.playbackRate
           slower == \E isAutoRepeat \in BOOLEAN : PressOf("Key_Minus", {}, isAutoRepeat)
           faster == \E isAutoRepeat \in BOOLEAN : PressOf("Key_Equal", {}, isAutoRepeat)
       IN  /\ float_le(float_min_rate, rate_after)
           /\ float_le(rate_after, float_max_rate)
           /\ rate_after.ulps \in -31..31
           /\ slower => /\ rate_after.tenths = Max(rate.tenths - 1, MinRate)
                         /\ rate = float_min_rate => rate_after = rate
           /\ faster => /\ rate_after.tenths = Min(rate.tenths + 1, MaxRate)
                         /\ rate = float_max_rate => rate_after = rate
           /\ ~(slower \/ faster) => rate_after = rate]_vars

\* C23 witness: a press of - has found the rate at 0.5 and left it there
C23_Witness ==
    /\ player.playbackRate = float_min_rate
    /\ keys_currently_pressed = {"Key_Minus"}
    /\ current_key_sequence = <<>>

=============================================================================
